---- MODULE Spec2Model ----
(***************************************************************************)
(* State-machine model of the session log, src/utils/memory.py             *)
(* (class MemoryManager): one instance, the wall clock it reads and the    *)
(* session file it writes and reads; and of the report scorer,             *)
(* src/utils/evaluator.py (class AgentEvaluator): one instance, its        *)
(* evaluation history and the directory tree it reads and writes; and of   *)
(* the two report pipelines of src/main.py, single_company_analysis and    *)
(* multi_company_comparison, which drive one session each.                 *)
(***************************************************************************)
EXTENDS Integers, Sequences, FiniteSets, TLC

(* ------------------------------ bounds -------------------------------- *)

\* the clock takes the values 0..MaxTime
MaxTime == 1
\* max_history_length is drawn from 0..MaxCap at construction
MaxCap == 2
\* at most MaxAdds add_message calls per constructed instance
MaxAdds == 3
\* increment_analysis_count is called while the counter is below MaxCount
MaxCount == 2
\* add_tokens_used is called while |total_tokens_used| is at most MaxTokens
MaxTokens == 2
\* a run makes at most MaxSteps calls and clock ticks after construction
MaxSteps == 4

(* -------------------------- program constants ------------------------- *)

\* def __init__(self, session_id=None, max_history_length: int = 50)
DefaultMaxHistoryLength == 50

(* ------------------------------ values -------------------------------- *)
(* A Python value is a record [t |-> its type, v |-> its printed form].    *)

PyNone == [t |-> "none", v |-> "None"]
PyStr(s) == [t |-> "str", v |-> s]
PyInt(n) == [t |-> "int", v |-> n]
EmptyDict == [t |-> "dict", v |-> "{}"]
StepDict == [t |-> "dict", v |-> "{'step': 1}"]
TupleVal == [t |-> "tuple", v |-> "1, 2"]
SetVal == [t |-> "set", v |-> "1, 2"]

\* Python truthiness, as used by `metadata or {}` and `if session_id:`
Truthy(x) ==
    CASE x.t = "none" -> FALSE
      [] x.t = "int" -> x.v # 0
      [] x.t = "str" -> x.v # ""
      [] x.t = "dict" -> x # EmptyDict
      [] OTHER -> TRUE

\* datetime.now().isoformat() and datetime.now().strftime('%Y%m%d_%H%M%S')
\* of the clock value t; the clock is counted in seconds.
IsoFormat(t) == PyStr("T" \o ToString(t))
NewSessionId(t) == PyStr("session_" \o ToString(t))

(* ------------------------------- JSON --------------------------------- *)

\* mutant: json.dump(..., default=str), which writes any value
JsonSerializableAny(x) ==
    x.t \in {"none", "bool", "int", "str", "dict", "list", "tuple", "set"}

\* json.dump accepts None, bool, int, str, dict, list and tuple and raises
\* TypeError on anything else.
JsonSerializable(x) == x.t \in {"none", "bool", "int", "str", "dict", "list", "tuple"}

\* json.load(json.dump(x)): a tuple is written as an array and read back as
\* a list; the other serializable values come back as they were.
JsonRoundTrip(x) == IF x.t = "tuple" THEN [t |-> "list", v |-> x.v] ELSE x

JsonRoundTripMessage(m) ==
    [role |-> JsonRoundTrip(m.role), content |-> JsonRoundTrip(m.content),
     timestamp |-> JsonRoundTrip(m.timestamp), metadata |-> JsonRoundTrip(m.metadata)]

(* ------------------------------ slices -------------------------------- *)

\* Python's seq[start:] for any integer start.
PySliceFrom(seq, start) ==
    LET n == Len(seq)
        lo == IF start < 0 THEN (IF n + start < 0 THEN 0 ELSE n + start)
              ELSE (IF start > n THEN n ELSE start)
    IN  SubSeq(seq, lo + 1, n)

(* ------------------------------- state -------------------------------- *)

VARIABLES
    now,                   \* the wall clock read by datetime.now()
    session_id,            \* self.session_id
    conversation_history,  \* self.conversation_history
    max_history_length,    \* self.max_history_length
    session_data,          \* self.session_data, a mapping key -> value
    files,                 \* the file system: path -> file content
    lastOp,                \* the last call made, its arguments, whether it raised
    ret,                   \* the value the last call returned
    added,                 \* messages passed to add_message since construction
    incCalls,              \* increment_analysis_count calls since construction
    tokensPassed,          \* sum of the n passed to add_tokens_used since construction
    saved,                 \* the in-memory state of the session that last wrote the file
    stored,                \* key -> the value last passed to store_analysis_result
    steps                  \* calls and clock ticks made so far

VARIABLES
    evaluation_history,    \* AgentEvaluator: self.evaluation_history
    disk,                  \* the directories and files the evaluator sees
    reportCalls            \* evaluate_report calls made on the evaluator

VARIABLES
    pc,                    \* main.py: the statement the running pipeline is at
    run                    \* main.py: the locals of the running pipeline

vars == <<now, session_id, conversation_history, max_history_length, session_data,
          files, lastOp, ret, added, incCalls, tokensPassed, saved, stored, steps,
          evaluation_history, disk, reportCalls, pc, run>>

evaluator == <<evaluation_history, disk, reportCalls>>
pipeline == <<pc, run>>

\* no pipeline has been started
NoRun == [mode |-> "none"]

instance == <<session_id, conversation_history, max_history_length, session_data>>
ghosts == <<added, incCalls, tokensPassed, stored>>

Op(name, k, n, val, raised) ==
    [op |-> name, k |-> k, n |-> n, val |-> val, raised |-> raised]

(* ------------------------------ inputs -------------------------------- *)

SessionPath == "sessions/my_session.json"
Paths == {SessionPath}

SessionIdInputs == {PyNone, PyStr("s1")}
CapInputs == 0..MaxCap
MessageInputs ==
    { [role |-> PyStr("user"), content |-> PyStr("Analyze Foo"), metadata |-> PyNone],
      [role |-> PyStr("agent"), content |-> PyStr("Starting analysis..."), metadata |-> StepDict] }
StoreInputs ==
    { <<"company_name", PyStr("Foo")>>, <<"company_name", TupleVal>>,
      <<"company_name", SetVal>>, <<"session_id", PyStr("Foo")>>,
      <<"analysis_count", PyInt(0)>>, <<"last_updated", PyStr("Foo")>> }
LookupKeys == {"company_name", "analysis_count", "last_updated", "quality_score"}
DefaultInputs == {PyNone, PyInt(0)}
TokenInputs == {-1, 1}
TurnInputs == 0..2

(* ---------------------------- file system ----------------------------- *)

NoFile == [kind |-> "absent", session_data |-> <<>>, conversation_history |-> <<>>]
PartialFile == [kind |-> "partial", session_data |-> <<>>, conversation_history |-> <<>>]
JsonFile(sd, hist) == [kind |-> "json", session_data |-> sd, conversation_history |-> hist]
\* a JSON object without the key 'session_data', and one without the key
\* 'conversation_history'
JsonFileWithoutSessionData(hist) ==
    [kind |-> "json_without_session_data", session_data |-> <<>>,
     conversation_history |-> hist]
JsonFileWithoutHistory(sd) ==
    [kind |-> "json_without_conversation_history", session_data |-> sd,
     conversation_history |-> <<>>]

NoSnapshot == [session_id |-> PyNone, session_data |-> <<>>, conversation_history |-> <<>>]

\* the directory tree under the working directory: the directories that
\* exist and, for each file that exists, its content
RadarPath == "charts/radar.png"
BarPath == "charts/bar.png"
HeatmapPath == "charts/heatmap.png"
PngFile(size) == [kind |-> "png", size |-> size]
InitDisk ==
    [dirs  |-> {"charts"},
     files |-> [p \in {RadarPath, BarPath} |->
                   IF p = RadarPath THEN PngFile(2048) ELSE PngFile(0)]]

(* --------------------------- MemoryManager ---------------------------- *)

\* memory.py 48-51: the id given, or one synthesized from the clock
InitSessionId(sid, t) == IF Truthy(sid) THEN sid ELSE NewSessionId(t)

\* memory.py 56-62: the result bag of a new session
InitSessionData(id, t) ==
    [session_id |-> id, created_at |-> IsoFormat(t), last_updated |-> IsoFormat(t),
     analysis_count |-> PyInt(0), total_tokens_used |-> PyInt(0)]

\* self.session_data[key] = value
Put(sd, key, value) ==
    [x \in (DOMAIN sd) \cup {key} |-> IF x = key THEN value ELSE sd[x]]

\* mutant: `self.session_data.get(key) or default`, which gives the default
\* for a stored value that is falsy
GetOrDefault(sd, key, default) ==
    IF key \in DOMAIN sd /\ Truthy(sd[key]) THEN sd[key] ELSE default

\* self.session_data.get(key, default)
Get(sd, key, default) == IF key \in DOMAIN sd THEN sd[key] ELSE default

\* the body of __init__: every attribute is assigned anew
Construct(sid, cap) ==
    /\ session_id' = InitSessionId(sid, now)
    /\ conversation_history' = <<>>
    /\ max_history_length' = cap
    /\ session_data' = InitSessionData(InitSessionId(sid, now), now)

\* MemoryManager(session_id, max_history_length): a new instance takes the
\* place of the old one; the files stay.
MemoryManager(sid, cap) ==
    /\ Construct(sid, cap)
    /\ lastOp' = Op("__init__", "", cap, sid, FALSE)
    /\ ret' = PyNone
    /\ added' = <<>> /\ incCalls' = 0 /\ tokensPassed' = 0 /\ stored' = <<>>
    /\ UNCHANGED <<now, files, saved>>

\* memory.py 87-89: trim the history to the cap
Trim(hist, cap) == IF Len(hist) > cap THEN PySliceFrom(hist, -cap) ELSE hist

\* memory.py 78-83
Message(role, content, metadata, t) ==
    [role |-> role, content |-> content, timestamp |-> IsoFormat(t),
     metadata |-> IF Truthy(metadata) THEN metadata ELSE EmptyDict]

add_message(role, content, metadata) ==
    /\ Len(added) < MaxAdds
    /\ Len(conversation_history) <= MaxAdds
    /\ conversation_history' =
           Trim(Append(conversation_history, Message(role, content, metadata, now)),
                max_history_length)
    /\ session_data' = Put(session_data, "last_updated", IsoFormat(now))
    /\ lastOp' = Op("add_message", "", 0, content, FALSE)
    /\ ret' = PyNone
    /\ added' = Append(added, Message(role, content, metadata, now))
    /\ UNCHANGED <<now, session_id, max_history_length, files, incCalls, tokensPassed,
                   saved, stored>>

\* memory.py 107
RecentContext(hist, max_turns) == PySliceFrom(hist, -max_turns)

get_recent_context(max_turns) ==
    /\ lastOp' = Op("get_recent_context", "", max_turns, PyNone, FALSE)
    /\ ret' = RecentContext(conversation_history, max_turns)
    /\ UNCHANGED <<now, instance, files, ghosts, saved>>

store_analysis_result(key, value) ==
    /\ session_data' = Put(Put(session_data, key, value), "last_updated", IsoFormat(now))
    /\ lastOp' = Op("store_analysis_result", key, 0, value, FALSE)
    /\ ret' = PyNone
    /\ stored' = Put(stored, key, value)
    /\ UNCHANGED <<now, session_id, conversation_history, max_history_length, files,
                   added, incCalls, tokensPassed, saved>>

get_analysis_result(key, default) ==
    /\ lastOp' = Op("get_analysis_result", key, 0, default, FALSE)
    /\ ret' = Get(session_data, key, default)
    /\ UNCHANGED <<now, instance, files, ghosts, saved>>

\* mutant: `-=` written for `+=`
Minus(x, n) == PyInt(x.v - n)

\* `x += n` on a value that is no number raises TypeError and assigns nothing
Plus(x, n) == PyInt(x.v + n)

increment_analysis_count ==
    /\ session_data["analysis_count"].t = "int" => session_data["analysis_count"].v < MaxCount
    /\ IF session_data["analysis_count"].t = "int"
       THEN /\ session_data' =
                  Put(Put(session_data, "analysis_count", Plus(session_data["analysis_count"], 1)),
                      "last_updated", IsoFormat(now))
            /\ lastOp' = Op("increment_analysis_count", "", 0, PyNone, FALSE)
       ELSE /\ session_data' = session_data
            /\ lastOp' = Op("increment_analysis_count", "", 0, PyNone, TRUE)
    /\ ret' = PyNone
    /\ incCalls' = incCalls + 1
    /\ incCalls < MaxCount
    /\ UNCHANGED <<now, session_id, conversation_history, max_history_length, files,
                   added, tokensPassed, saved, stored>>

add_tokens_used(tokens) ==
    /\ session_data["total_tokens_used"].t = "int"
    /\ session_data["total_tokens_used"].v + tokens \in -MaxTokens..MaxTokens
    /\ tokensPassed + tokens \in -MaxTokens..MaxTokens
    /\ session_data' =
           Put(session_data, "total_tokens_used", Plus(session_data["total_tokens_used"], tokens))
    /\ lastOp' = Op("add_tokens_used", "", tokens, PyNone, FALSE)
    /\ ret' = PyNone
    /\ tokensPassed' = tokensPassed + tokens
    /\ UNCHANGED <<now, session_id, conversation_history, max_history_length, files,
                   added, incCalls, saved, stored>>

\* mutant: analysis_count read from the wrong counter
SessionStatsWrongCounter ==
    [session_id |-> session_id,
     created_at |-> session_data["created_at"],
     last_updated |-> session_data["last_updated"],
     message_count |-> Len(conversation_history),
     analysis_count |-> session_data["total_tokens_used"],
     total_tokens_used |-> session_data["total_tokens_used"]]

\* memory.py 193-200
SessionStats ==
    [session_id |-> session_id,
     created_at |-> session_data["created_at"],
     last_updated |-> session_data["last_updated"],
     message_count |-> Len(conversation_history),
     analysis_count |-> session_data["analysis_count"],
     total_tokens_used |-> session_data["total_tokens_used"]]

get_session_stats ==
    /\ lastOp' = Op("get_session_stats", "", 0, PyNone, FALSE)
    /\ ret' = SessionStats
    /\ UNCHANGED <<now, instance, files, ghosts, saved>>

\* json.dump(data) succeeds iff every value in data is serializable
Dumpable(sd, hist) ==
    /\ \A k \in DOMAIN sd : JsonSerializable(sd[k])
    /\ \A i \in 1..Len(hist) : JsonSerializable(hist[i].metadata)

\* what json.load reads back from the file json.dump wrote
Written(sd, hist) ==
    JsonFile([k \in DOMAIN sd |-> JsonRoundTrip(sd[k])],
             [i \in 1..Len(hist) |-> JsonRoundTripMessage(hist[i])])

\* memory.py 212-215
PathOf(filepath, id) ==
    IF filepath = "" THEN "sessions/" \o ToString(id.v) \o ".json" ELSE filepath

\* open(filepath, 'w') empties the file before json.dump runs, so a dump that
\* raises leaves a file that is no JSON document.
save_to_file(filepath) ==
    /\ PathOf(filepath, session_id) \in Paths
    /\ IF Dumpable(session_data, conversation_history)
       THEN /\ files' = [files EXCEPT ![PathOf(filepath, session_id)] =
                            Written(session_data, conversation_history)]
            /\ saved' = [session_id |-> session_id, session_data |-> session_data,
                         conversation_history |-> conversation_history]
            /\ lastOp' = Op("save_to_file", filepath, 0, PyNone, FALSE)
       ELSE /\ files' = [files EXCEPT ![PathOf(filepath, session_id)] = PartialFile]
            /\ saved' = NoSnapshot
            /\ lastOp' = Op("save_to_file", filepath, 0, PyNone, TRUE)
    /\ ret' = PyNone
    /\ UNCHANGED <<now, instance, ghosts>>

\* memory.py 235-240: open() and json.load raise before anything is
\* assigned; the three assignments then run in order, and a KeyError in one
\* of them leaves the earlier ones done
load_from_file(filepath) ==
    /\ filepath \in Paths
    /\ LET f == files[filepath]
       IN  CASE f.kind \in {"absent", "partial", "json_without_session_data"} ->
                  /\ UNCHANGED <<session_data, conversation_history, session_id>>
                  /\ lastOp' = Op("load_from_file", filepath, 0, PyNone, TRUE)
             [] f.kind = "json_without_conversation_history" ->
                  /\ session_data' = f.session_data
                  /\ UNCHANGED <<conversation_history, session_id>>
                  /\ lastOp' = Op("load_from_file", filepath, 0, PyNone, TRUE)
             [] f.kind = "json" /\ "session_id" \notin DOMAIN f.session_data ->
                  /\ session_data' = f.session_data
                  /\ conversation_history' = f.conversation_history
                  /\ UNCHANGED session_id
                  /\ lastOp' = Op("load_from_file", filepath, 0, PyNone, TRUE)
             [] f.kind = "json" /\ "session_id" \in DOMAIN f.session_data ->
                  /\ session_data' = f.session_data
                  /\ conversation_history' = f.conversation_history
                  /\ session_id' = f.session_data["session_id"]
                  /\ lastOp' = Op("load_from_file", filepath, 0, PyNone, FALSE)
    /\ ret' = PyNone
    /\ UNCHANGED <<now, max_history_length, files, ghosts, saved>>

\* mutant: clear_history stamps last_updated, as the other mutators do
clear_history_stamping ==
    /\ conversation_history' = <<>>
    /\ session_data' = Put(session_data, "last_updated", IsoFormat(now))
    /\ lastOp' = Op("clear_history", "", 0, PyNone, FALSE)
    /\ ret' = PyNone
    /\ UNCHANGED <<now, session_id, max_history_length, files, ghosts, saved>>

clear_history ==
    /\ conversation_history' = <<>>
    /\ lastOp' = Op("clear_history", "", 0, PyNone, FALSE)
    /\ ret' = PyNone
    /\ UNCHANGED <<now, session_id, max_history_length, session_data, files, ghosts, saved>>

\* self.__init__(): no argument is passed, the defaults apply
reset_session ==
    /\ Construct(PyNone, DefaultMaxHistoryLength)
    /\ lastOp' = Op("reset_session", "", 0, PyNone, FALSE)
    /\ ret' = PyNone
    /\ added' = <<>> /\ incCalls' = 0 /\ tokensPassed' = 0 /\ stored' = <<>>
    /\ UNCHANGED <<now, files, saved>>

\* the wall clock advances between calls
Tick ==
    /\ now < MaxTime
    /\ now' = now + 1
    /\ lastOp' = Op("tick", "", 0, PyNone, FALSE)
    /\ ret' = PyNone
    /\ UNCHANGED <<instance, files, ghosts, saved>>

(* --------------------------- specification ---------------------------- *)

Init ==
    /\ now = 0
    /\ \E sid \in SessionIdInputs, cap \in CapInputs :
          /\ session_id = InitSessionId(sid, 0)
          /\ conversation_history = <<>>
          /\ max_history_length = cap
          /\ session_data = InitSessionData(InitSessionId(sid, 0), 0)
          /\ lastOp = Op("__init__", "", cap, sid, FALSE)
    /\ files = [p \in Paths |-> NoFile]
    /\ ret = PyNone
    /\ added = <<>> /\ incCalls = 0 /\ tokensPassed = 0 /\ stored = <<>>
    /\ saved = NoSnapshot
    /\ steps = 0
    /\ evaluation_history = <<>> /\ disk = InitDisk /\ reportCalls = 0
    /\ pc = "idle" /\ run = NoRun

Call ==
    \/ \E sid \in SessionIdInputs, cap \in CapInputs : MemoryManager(sid, cap)
    \/ \E m \in MessageInputs : add_message(m.role, m.content, m.metadata)
    \/ \E n \in TurnInputs : get_recent_context(n)
    \/ \E kv \in StoreInputs : store_analysis_result(kv[1], kv[2])
    \/ \E k \in LookupKeys, d \in DefaultInputs : get_analysis_result(k, d)
    \/ increment_analysis_count
    \/ \E n \in TokenInputs : add_tokens_used(n)
    \/ get_session_stats
    \/ \E p \in Paths : save_to_file(p)
    \/ \E p \in Paths : load_from_file(p)
    \/ clear_history
    \/ reset_session
    \/ Tick

Next ==
    /\ steps < MaxSteps
    /\ steps' = steps + 1
    /\ Call
    /\ UNCHANGED evaluator
    /\ UNCHANGED pipeline

Spec == Init /\ [][Next]_vars

\* The calls made on one session between its construction and the first
\* clear_history, load_from_file or reset_session.
CallLog ==
    \/ \E m \in MessageInputs : add_message(m.role, m.content, m.metadata)
    \/ \E n \in TurnInputs : get_recent_context(n)
    \/ \E kv \in StoreInputs : store_analysis_result(kv[1], kv[2])
    \/ increment_analysis_count
    \/ \E n \in TokenInputs : add_tokens_used(n)
    \/ get_session_stats
    \/ \E p \in Paths : save_to_file(p)

NextLog ==
    /\ steps < MaxSteps
    /\ steps' = steps + 1
    /\ CallLog
    /\ UNCHANGED evaluator
    /\ UNCHANGED pipeline

SpecLog == Init /\ [][NextLog]_vars

(* ---------------------------- AgentEvaluator ------------------------- *)
(* A score is an integer number of hundredths: 9.09 is 909. A text is the  *)
(* record of what the scorer reads from it: len(text), len(text.split()),  *)
(* the headings and labels occurring in it, text.count('- ') +             *)
(* text.count('* ') and text.count('#').                                   *)

\* round(num / den, 2), in hundredths, where num / den is not half-way
\* between two hundredths
Round2(num, den) == (200 * num + den) \div (2 * den)

\* round(x, 2) for x = halves / 2 hundredths: exact when halves is even;
\* otherwise x is a decimal tie, the binary float is not, and the result is
\* the neighbour the float happens to be nearer to
Round2OfHalves(halves) ==
    IF halves % 2 = 0 THEN {halves \div 2} ELSE {halves \div 2, halves \div 2 + 1}

RECURSIVE Join(_, _)
\* sep.join(seq)
Join(seq, sep) ==
    IF seq = <<>> THEN ""
    ELSE IF Len(seq) = 1 THEN seq[1]
    ELSE seq[1] \o sep \o Join(Tail(seq), sep)

\* seq[:n]
PySliceTo(seq, n) == SubSeq(seq, 1, IF n < Len(seq) THEN n ELSE Len(seq))

\* the keys of required_sections, in the order of the dict
RequiredSections ==
    << "Executive Summary", "Company Overview", "Competitive Analysis",
       "SWOT Analysis", "Strengths", "Weaknesses", "Opportunities", "Threats",
       "Pricing", "Recommendations", "Conclusion" >>

\* the headings and labels a report text is made of
ReportPhrases ==
    { "Executive Summary", "company overview", "Competitive Analysis",
      "SWOT Analysis", "**Strengths**", "Weaknesses:", "**Opportunities**",
      "**Threats**", "Pricing Strategy", "Strategic Recommendations",
      "CONCLUSION", "Key strengths", "Pricing", "recommendation" }

\* re.search(required_sections[name], phrase)
SectionPatternSearch(name, phrase) ==
    CASE name = "Executive Summary"    -> phrase = "Executive Summary"
      [] name = "Company Overview"     -> phrase = "company overview"
      [] name = "Competitive Analysis" -> phrase = "Competitive Analysis"
      [] name = "SWOT Analysis"        -> phrase = "SWOT Analysis"
      [] name = "Strengths"            -> phrase = "**Strengths**"
      [] name = "Weaknesses"           -> phrase = "Weaknesses:"
      [] name = "Opportunities"        -> phrase = "**Opportunities**"
      [] name = "Threats"              -> phrase = "**Threats**"
      [] name = "Pricing"              -> phrase = "Pricing Strategy"
      [] name = "Recommendations"      ->
            phrase \in {"Strategic Recommendations", "recommendation"}
      [] name = "Conclusion"           -> phrase = "CONCLUSION"

\* a search that finds every section in every text
SectionFoundAnywhere(name, report) == TRUE

\* re.search(pattern, report) for the pattern of one required section
SectionFound(name, report) ==
    \E phrase \in report.phrases : SectionPatternSearch(name, phrase)

\* the loop over required_sections: the names found, in table order
SectionsFound(report) ==
    SelectSeq(RequiredSections, LAMBDA name : SectionFound(name, report))

\* the loop over required_sections: the names missing, in table order
SectionsMissing(report) ==
    SelectSeq(RequiredSections, LAMBDA name : ~SectionFound(name, report))

\* the percentage of sections found, cut after two decimals
CompletenessScoreTruncated(found) ==
    (Len(found) * 100 * 100) \div Len(RequiredSections)

\* round((len(sections_found) / len(required_sections)) * 100, 2)
CompletenessScore(found) == Round2(Len(found) * 100, Len(RequiredSections))

InSeq(x, seq) == \E i \in 1..Len(seq) : seq[i] = x

\* evaluation['metrics'] of a report
ReportMetrics(report, found) ==
    [has_swot              |-> InSeq("SWOT Analysis", found),
     has_all_swot_parts    |-> \A part \in {"Strengths", "Weaknesses",
                                            "Opportunities", "Threats"} :
                                  InSeq(part, found),
     has_recommendations   |-> InSeq("Recommendations", found),
     has_conclusion        |-> InSeq("Conclusion", found),
     adequate_length       |-> report.word_count >= 1000,
     comprehensive_length  |-> report.word_count >= 3000,
     bullet_points         |-> report.bullets,
     headers               |-> report.headers]

\* the word-count ladder with strict comparisons
WordTierStrict(word_count) ==
    IF word_count > 5000 THEN 30
    ELSE IF word_count > 3000 THEN 25
    ELSE IF word_count > 2000 THEN 20
    ELSE IF word_count > 1000 THEN 15
    ELSE 10

\* "Word count contribution (0-30 points)"
WordTier(word_count) ==
    IF word_count >= 5000 THEN 30
    ELSE IF word_count >= 3000 THEN 25
    ELSE IF word_count >= 2000 THEN 20
    ELSE IF word_count >= 1000 THEN 15
    ELSE 10

\* "SWOT completeness (0-25 points)"
SwotAward(metrics) ==
    IF metrics.has_all_swot_parts THEN 25
    ELSE IF metrics.has_swot THEN 15
    ELSE 0

\* the structure ladders with strict comparisons
StructureAwardStrict(metrics) ==
    (IF metrics.bullet_points > 20 THEN 15
     ELSE IF metrics.bullet_points > 10 THEN 10 ELSE 0)
    + (IF metrics.headers > 8 THEN 10
       ELSE IF metrics.headers > 5 THEN 5 ELSE 0)

\* "Structure quality (0-25 points)"
StructureAward(metrics) ==
    (IF metrics.bullet_points >= 20 THEN 15
     ELSE IF metrics.bullet_points >= 10 THEN 10 ELSE 0)
    + (IF metrics.headers >= 8 THEN 10
       ELSE IF metrics.headers >= 5 THEN 5 ELSE 0)

\* "Strategic content (0-20 points)"
StrategicAward(metrics) ==
    (IF metrics.has_recommendations THEN 10 ELSE 0)
    + (IF metrics.has_conclusion THEN 10 ELSE 0)

\* min(quality_score, 100), in points
QualityScore(word_count, metrics) ==
    LET quality_score == WordTier(word_count) + SwotAward(metrics)
                         + StructureAward(metrics) + StrategicAward(metrics)
    IN  IF quality_score < 100 THEN quality_score ELSE 100

\* an overall score that ignores the quality score
ReportOverallCompletenessOnly(completeness_score, quality_score) ==
    {completeness_score}

\* round(completeness_score * 0.5 + quality_score * 0.5, 2): the results the
\* float arithmetic can give, completeness_score in hundredths and
\* quality_score in points
ReportOverall(completeness_score, quality_score) ==
    Round2OfHalves(completeness_score + quality_score * 100)

\* the recommendations, the last one naming every missing section
RecommendationsNamingAll(metrics, word_count, missing) ==
    (IF ~metrics.has_all_swot_parts
       THEN <<"Ensure all SWOT components are present">> ELSE <<>>)
    \o (IF word_count < 3000
          THEN <<"Consider adding more detailed analysis">> ELSE <<>>)
    \o (IF ~metrics.has_recommendations
          THEN <<"Add strategic recommendations section">> ELSE <<>>)
    \o (IF Len(missing) > 3
          THEN <<"Missing key sections: " \o Join(missing, ", ")>> ELSE <<>>)

\* "Generate recommendations"
Recommendations(metrics, word_count, missing) ==
    (IF ~metrics.has_all_swot_parts
       THEN <<"Ensure all SWOT components are present">> ELSE <<>>)
    \o (IF word_count < 3000
          THEN <<"Consider adding more detailed analysis">> ELSE <<>>)
    \o (IF ~metrics.has_recommendations
          THEN <<"Add strategic recommendations section">> ELSE <<>>)
    \o (IF Len(missing) > 3
          THEN <<"Missing key sections: " \o Join(PySliceTo(missing, 3), ", ")>>
          ELSE <<>>)

\* the record evaluate_report builds for a report read at time t, given the
\* value the last rounding produced
Evaluation(report, company_name, t, overall_score) ==
    LET found   == SectionsFound(report)
        missing == SectionsMissing(report)
        metrics == ReportMetrics(report, found)
        completeness_score == CompletenessScore(found)
        quality_score == QualityScore(report.word_count, metrics)
    IN  [timestamp        |-> IsoFormat(t),
         company_name     |-> company_name,
         word_count       |-> report.word_count,
         char_count       |-> report.char_count,
         sections_found   |-> found,
         sections_missing |-> missing,
         metrics          |-> metrics,
         recommendations  |-> Recommendations(metrics, report.word_count, missing),
         completeness_score |-> completeness_score,
         quality_score    |-> quality_score * 100,
         overall_score    |-> overall_score]

\* a call of the evaluator, its arguments, whether it raised
EvalOp(name, args, raised) == [op |-> name, args |-> args, raised |-> raised]

\* def evaluate_report(self, report: str, company_name: str = None)
evaluate_report(report, company_name) ==
    LET found == SectionsFound(report)
        metrics == ReportMetrics(report, found)
    IN  \E overall_score \in ReportOverall(CompletenessScore(found),
                                QualityScore(report.word_count, metrics)) :
           LET evaluation == Evaluation(report, company_name, now, overall_score)
           IN  /\ evaluation_history' = Append(evaluation_history, evaluation)
               /\ reportCalls' = reportCalls + 1
               /\ lastOp' = EvalOp("evaluate_report",
                                   [report |-> report, company_name |-> company_name],
                                   FALSE)
               /\ ret' = evaluation
               /\ UNCHANGED <<now, disk>>

\* the keys of comparison_sections, in the order of the dict
ComparisonSections ==
    << "Market Position Comparison", "Product Comparison",
       "Competitive Advantages", "Competitive Weaknesses", "Pricing Comparison",
       "SWOT Comparison", "Head-to-Head", "Winner Analysis", "Final Verdict" >>

\* the headings a comparison text is made of
ComparisonPhrases ==
    { "Market Position Comparison", "Product Comparison",
      "Competitive Advantages", "Competitive Weaknesses", "Pricing Comparison",
      "SWOT Comparison", "head-to-head", "Winner Analysis", "Final Verdict",
      "Head to Head", "Product and Pricing Comparison" }

\* re.search(comparison_sections[name], phrase)
ComparisonPatternSearch(name, phrase) ==
    CASE name = "Market Position Comparison" -> phrase = "Market Position Comparison"
      [] name = "Product Comparison"     ->
            phrase \in {"Product Comparison", "Product and Pricing Comparison"}
      [] name = "Competitive Advantages" -> phrase = "Competitive Advantages"
      [] name = "Competitive Weaknesses" -> phrase = "Competitive Weaknesses"
      [] name = "Pricing Comparison"     ->
            phrase \in {"Pricing Comparison", "Product and Pricing Comparison"}
      [] name = "SWOT Comparison"        -> phrase = "SWOT Comparison"
      [] name = "Head-to-Head"           -> phrase = "head-to-head"
      [] name = "Winner Analysis"        -> phrase = "Winner Analysis"
      [] name = "Final Verdict"          -> phrase = "Final Verdict"

\* the loop over comparison_sections: the names found, in table order
ComparisonSectionsFound(comparison_report) ==
    SelectSeq(ComparisonSections,
              LAMBDA name : \E phrase \in comparison_report.phrases :
                               ComparisonPatternSearch(name, phrase))

\* company.lower()
Lower(company) ==
    CASE company = "Acme" -> "acme"
      [] company = "ACME" -> "acme"
      [] company = "Bolt" -> "bolt"

\* the dict companies_mentioned: one key per distinct name of the list, its
\* value comparison_report.lower().count(company.lower())
CompaniesMentioned(comparison_report, companies) ==
    [company \in {companies[i] : i \in 1..Len(companies)} |->
        comparison_report.mentions[Lower(company)]]

\* max(d.values()) and min(d.values()) of a dict with at least one key
MaxValue(d) == CHOOSE m \in {d[k] : k \in DOMAIN d} : \A k \in DOMAIN d : d[k] <= m
MinValue(d) == CHOOSE m \in {d[k] : k \in DOMAIN d} : \A k \in DOMAIN d : d[k] >= m

\* a balance test that accepts a ratio of exactly 2
BalancedCoverageUpToTwo(companies_mentioned) ==
    IF MinValue(companies_mentioned) > 0
    THEN MaxValue(companies_mentioned) <= 2 * MinValue(companies_mentioned)
    ELSE FALSE

\* max(...) / min(...) < 2 if min(...) > 0 else False, for a dict with at
\* least one key
BalancedCoverage(companies_mentioned) ==
    IF MinValue(companies_mentioned) > 0
    THEN MaxValue(companies_mentioned) < 2 * MinValue(companies_mentioned)
    ELSE FALSE

\* evaluation['metrics'] of a comparison, for a list with at least one name
ComparisonMetrics(comparison_report, companies_mentioned, found) ==
    [all_companies_mentioned |-> \A k \in DOMAIN companies_mentioned :
                                    companies_mentioned[k] > 0,
     companies_mention_count |-> companies_mentioned,
     balanced_coverage       |-> BalancedCoverage(companies_mentioned),
     adequate_length         |-> comparison_report.word_count >= 2000,
     comprehensive           |-> Len(found) >= 7]

\* "Calculate score": quality_score, in points
ComparisonQuality(metrics) ==
    (IF metrics.all_companies_mentioned THEN 30 ELSE 0)
    + (IF metrics.balanced_coverage THEN 20 ELSE 0)
    + (IF metrics.adequate_length THEN 25 ELSE 0)
    + (IF metrics.comprehensive THEN 25 ELSE 0)

\* the record evaluate_comparison builds at time t
ComparisonEvaluation(comparison_report, companies, t) ==
    LET found   == ComparisonSectionsFound(comparison_report)
        metrics == ComparisonMetrics(comparison_report,
                       CompaniesMentioned(comparison_report, companies), found)
        quality_score == ComparisonQuality(metrics)
    IN  [timestamp          |-> IsoFormat(t),
         companies          |-> companies,
         num_companies      |-> Len(companies),
         word_count         |-> comparison_report.word_count,
         sections_found     |-> found,
         metrics            |-> metrics,
         \* round(completeness, 2)
         completeness_score |-> Round2(Len(found) * 100, Len(ComparisonSections)),
         quality_score      |-> quality_score * 100,
         \* round((completeness + quality_score) / 2, 2)
         overall_score      |-> Round2(Len(found) * 100
                                          + quality_score * Len(ComparisonSections),
                                       2 * Len(ComparisonSections))]

\* an exception leaving a call
Raised(exception) == [exception |-> exception]

\* a comparison that also stores its record in the history
evaluate_comparison_storing(comparison_report, companies) ==
    /\ companies # <<>>
    /\ lastOp' = EvalOp("evaluate_comparison",
                        [comparison_report |-> comparison_report,
                         companies |-> companies], FALSE)
    /\ ret' = ComparisonEvaluation(comparison_report, companies, now)
    /\ evaluation_history' = Append(evaluation_history, ret')
    /\ UNCHANGED <<now, disk, reportCalls>>

\* def evaluate_comparison(self, comparison_report: str, companies: List[str])
evaluate_comparison(comparison_report, companies) ==
    /\ IF companies = <<>>
       THEN \* min() of the empty dict_values: "min() arg is an empty sequence"
            /\ lastOp' = EvalOp("evaluate_comparison",
                                [comparison_report |-> comparison_report,
                                 companies |-> companies], TRUE)
            /\ ret' = Raised("ValueError")
       ELSE /\ lastOp' = EvalOp("evaluate_comparison",
                                [comparison_report |-> comparison_report,
                                 companies |-> companies], FALSE)
            /\ ret' = ComparisonEvaluation(comparison_report, companies, now)
    /\ UNCHANGED <<now, evaluation_history, disk, reportCalls>>

\* the kinds of chart evaluate_charts expects
ExpectedTypes == <<"radar", "bar", "heatmap">>

\* os.path.exists(path) if path else False
ChartExists(path, d) == Truthy(path) /\ path.v \in DOMAIN d.files

\* os.path.getsize(path) if path and os.path.exists(path) else 0
ChartSize(path, d) == IF ChartExists(path, d) THEN d.files[path.v].size ELSE 0

\* def evaluate_charts(self, chart_paths: Dict[str, str]); the score is the
\* float nearest to the fraction num / den
evaluate_charts(chart_paths) ==
    /\ ret' = [timestamp          |-> IsoFormat(now),
               charts_generated   |-> Cardinality(DOMAIN chart_paths),
               expected_charts    |-> 3,
               charts             |-> [chart_type \in DOMAIN chart_paths |->
                                         [type   |-> chart_type,
                                          path   |-> chart_paths[chart_type],
                                          exists |-> ChartExists(chart_paths[chart_type], disk),
                                          size   |-> ChartSize(chart_paths[chart_type], disk)]],
               all_charts_present |-> \A i \in 1..Len(ExpectedTypes) :
                                         ExpectedTypes[i] \in DOMAIN chart_paths,
               score              |-> [num |-> Cardinality(DOMAIN chart_paths) * 100,
                                       den |-> 3]]
    /\ lastOp' = EvalOp("evaluate_charts", [chart_paths |-> chart_paths], FALSE)
    /\ UNCHANGED <<now, evaluation_history, disk, reportCalls>>

RECURSIVE Sum(_)
\* sum(scores)
Sum(scores) == IF scores = <<>> THEN 0 ELSE scores[1] + Sum(Tail(scores))

\* the mean of a total in hundredths, cut after two decimals
MeanTruncated(total, n) == {total \div n}

\* round(total / n, 2) for a total in hundredths: the nearest hundredth, and
\* either neighbour when total / n is half-way between two
Round2OfMean(total, n) ==
    IF (2 * total) % n = 0 /\ ((2 * total) \div n) % 2 = 1
    THEN {total \div n, total \div n + 1}
    ELSE {(2 * total + n) \div (2 * n)}

\* the dict get_evaluation_summary returns for a history, given the value
\* the rounding of the average produced
EvaluationSummary(history, average_score) ==
    IF history = <<>>
    THEN [message |-> "No evaluations yet"]
    ELSE LET scores == [i \in 1..Len(history) |-> history[i].overall_score]
         IN  [total_evaluations |-> Len(history),
              average_score     |-> average_score,
              highest_score     |-> CHOOSE m \in {scores[i] : i \in 1..Len(scores)} :
                                       \A i \in 1..Len(scores) : scores[i] <= m,
              lowest_score      |-> CHOOSE m \in {scores[i] : i \in 1..Len(scores)} :
                                       \A i \in 1..Len(scores) : scores[i] >= m,
              evaluations       |-> history]

\* the values round(sum(scores) / len(scores), 2) can take for a history
AverageScores(history) ==
    IF history = <<>> THEN {0}
    ELSE Round2OfMean(Sum([i \in 1..Len(history) |-> history[i].overall_score]),
                      Len(history))

\* def get_evaluation_summary(self)
get_evaluation_summary ==
    /\ \E average_score \in AverageScores(evaluation_history) :
          ret' = EvaluationSummary(evaluation_history, average_score)
    /\ lastOp' = EvalOp("get_evaluation_summary", <<>>, FALSE)
    /\ UNCHANGED <<now, evaluation_history, disk, reportCalls>>

\* datetime.now().strftime('%Y%m%d_%H%M%S')
StrfTime(t) == ToString(t)

\* the directory part of a path the evaluator is given
DirName(path) ==
    CASE path = "evaluations/session_eval.json" -> "evaluations"
      [] path = "reports/eval.json" -> "reports"

\* def save_evaluation(self, filepath: str = None)
save_evaluation(filepath) ==
    \E average_score \in AverageScores(evaluation_history) :
       LET summary == EvaluationSummary(evaluation_history, average_score)
           content == [kind |-> "json", value |-> summary]
       IN  IF filepath = PyNone
           THEN LET path == "evaluations/evaluation_" \o StrfTime(now) \o ".json"
                IN  /\ disk' = [dirs  |-> disk.dirs \cup {"evaluations"},
                                files |-> Put(disk.files, path, content)]
                    /\ lastOp' = EvalOp("save_evaluation", [filepath |-> filepath], FALSE)
                    /\ ret' = [t |-> "Path", v |-> path]
                    /\ UNCHANGED <<now, evaluation_history, reportCalls>>
           ELSE IF DirName(filepath.v) \in disk.dirs
                THEN /\ disk' = [disk EXCEPT !.files = Put(@, filepath.v, content)]
                     /\ lastOp' = EvalOp("save_evaluation", [filepath |-> filepath], FALSE)
                     /\ ret' = filepath
                     /\ UNCHANGED <<now, evaluation_history, reportCalls>>
                ELSE \* open(filepath, 'w'): FileNotFoundError
                     /\ lastOp' = EvalOp("save_evaluation", [filepath |-> filepath], TRUE)
                     /\ ret' = Raised("FileNotFoundError")
                     /\ UNCHANGED <<now, evaluation_history, disk, reportCalls>>

(* ------------------------- evaluator inputs --------------------------- *)

\* a report text: len(report), len(report.split()), the headings and labels
\* in it, report.count('- ') + report.count('* '), report.count('#')
ReportText(chars, words, phrases, bullets, headers) ==
    [char_count |-> chars, word_count |-> words, phrases |-> phrases,
     bullets |-> bullets, headers |-> headers]

\* the empty string, and a string of one blank
EmptyReport == ReportText(0, 0, {}, 0, 0)
BlankReport == ReportText(1, 0, {}, 0, 0)

\* word counts on both sides of every step of the word-count ladder
WordCountInputs == {999, 1000, 1999, 2000, 2999, 3000, 4999, 5000}

\* bullet and header counts on both sides of every step of the two ladders
StructureInputs ==
    { <<0, 0>>, <<9, 4>>, <<10, 5>>, <<19, 7>>, <<20, 8>>, <<20, 0>> }

\* one heading or label per required section, and three that are near one
SectionHeadings ==
    ReportPhrases \ {"Key strengths", "Pricing", "recommendation"}
PhraseInputs ==
    (SUBSET SectionHeadings)
    \cup { (SectionHeadings \ {"**Strengths**", "Pricing Strategy",
                               "Strategic Recommendations"}) \cup near :
           near \in SUBSET {"Key strengths", "Pricing", "recommendation"} }

ReportInputs ==
    {EmptyReport, BlankReport}
    \cup { ReportText(6 * words, words, phrases, st[1], st[2]) :
           words \in WordCountInputs, phrases \in PhraseInputs,
           st \in StructureInputs }

CompanyNameInputs == {PyNone, PyStr("Acme")}

\* a comparison text: len(text.split()), the headings in it, and for each
\* lower-cased company name text.lower().count(name)
ComparisonText(words, phrases, mentions) ==
    [word_count |-> words, phrases |-> phrases, mentions |-> mentions]

\* the first n comparison headings, in table order
FirstHeadings(n) ==
    { phrase \in ComparisonPhrases :
        \E i \in 1..n : ComparisonPatternSearch(ComparisonSections[i], phrase)
                        /\ phrase # "Product and Pricing Comparison" }

ComparisonPhraseInputs ==
    { FirstHeadings(n) : n \in 0..Len(ComparisonSections) }
    \cup { {phrase} : phrase \in ComparisonPhrases }
    \cup { ComparisonPhrases }

MentionInputs == [{"acme", "bolt"} -> {0, 1, 2, 3, 5}]

ComparisonInputs ==
    {ComparisonText(0, {}, [name \in {"acme", "bolt"} |-> 0])}
    \cup { ComparisonText(words, phrases, mentions) :
           words \in {1999, 2000}, phrases \in ComparisonPhraseInputs,
           mentions \in MentionInputs }

CompaniesInputs ==
    { <<>>, <<"Acme">>, <<"Acme", "Bolt">>, <<"Acme", "ACME">>,
      <<"Bolt", "Acme", "Bolt">> }

(* ----------------------- evaluator specifications --------------------- *)

\* what the evaluator never touches
memory == <<session_id, conversation_history, max_history_length, session_data,
            files, added, incCalls, tokensPassed, saved, stored>>

\* AgentEvaluator(): an evaluator with an empty history, beside a session
\* that has just been constructed
InitEvaluator ==
    /\ now = 0
    /\ session_id = InitSessionId(PyNone, 0)
    /\ conversation_history = <<>>
    /\ max_history_length = DefaultMaxHistoryLength
    /\ session_data = InitSessionData(InitSessionId(PyNone, 0), 0)
    /\ files = [p \in Paths |-> NoFile]
    /\ added = <<>> /\ incCalls = 0 /\ tokensPassed = 0 /\ stored = <<>>
    /\ saved = NoSnapshot
    /\ evaluation_history = <<>> /\ disk = InitDisk /\ reportCalls = 0
    /\ pc = "idle" /\ run = NoRun
    /\ lastOp = EvalOp("AgentEvaluator", <<>>, FALSE)
    /\ ret = PyNone
    /\ steps = 0

\* one scoring call on a new evaluator, for every text; evaluate_report is
\* called with its default company_name=None
CallScore ==
    \/ \E report \in ReportInputs : evaluate_report(report, PyNone)
    \/ \E comparison_report \in ComparisonInputs, companies \in CompaniesInputs :
          evaluate_comparison(comparison_report, companies)

NextScore ==
    /\ steps = 0
    /\ steps' = 1
    /\ CallScore
    /\ UNCHANGED memory
    /\ UNCHANGED pipeline

SpecScore == InitEvaluator /\ [][NextScore]_vars

\* the reports, comparisons, chart maps and paths one evaluator is used on
EvalReportInputs ==
    { <<EmptyReport, PyNone>>,
      <<ReportText(5994, 999, {"Competitive Analysis"}, 0, 0), PyStr("Acme")>>,
      <<ReportText(30000, 5000, SectionHeadings, 20, 8), PyStr("Bolt")>> }

EvalComparisonInputs ==
    { <<ComparisonText(0, {}, [name \in {"acme", "bolt"} |-> 0]), <<>> >>,
      <<ComparisonText(2000, ComparisonPhrases,
                       [name \in {"acme", "bolt"} |-> IF name = "acme" THEN 3 ELSE 2]),
        <<"Acme", "Bolt">> >> }

ChartPathInputs ==
    { [chart_type \in {} |-> PyNone],
      [chart_type \in {"radar", "bar", "heatmap"} |->
          CASE chart_type = "radar" -> PyStr(RadarPath)
            [] chart_type = "bar" -> PyStr(BarPath)
            [] chart_type = "heatmap" -> PyStr(HeatmapPath)],
      [chart_type \in {"radar", "bar", "heatmap", "pie"} |->
          CASE chart_type = "radar" -> PyNone
            [] chart_type = "bar" -> PyStr("")
            [] chart_type = "heatmap" -> PyStr(HeatmapPath)
            [] chart_type = "pie" -> PyStr(RadarPath)] }

SavePathInputs ==
    {PyNone, PyStr("evaluations/session_eval.json"), PyStr("reports/eval.json")}

\* the calls made on one evaluator, in any order, while the clock advances
CallEval ==
    \/ \E in \in EvalReportInputs : evaluate_report(in[1], in[2])
    \/ \E in \in EvalComparisonInputs : evaluate_comparison(in[1], in[2])
    \/ \E chart_paths \in ChartPathInputs : evaluate_charts(chart_paths)
    \/ get_evaluation_summary
    \/ \E filepath \in SavePathInputs : save_evaluation(filepath)
    \/ Tick /\ UNCHANGED evaluator

NextEval ==
    /\ steps < MaxSteps
    /\ steps' = steps + 1
    /\ CallEval
    /\ UNCHANGED memory
    /\ UNCHANGED pipeline

SpecEval == InitEvaluator /\ [][NextEval]_vars

(* ------------------ a session beside a file it did not write ---------- *)

\* the messages of another session, which kept up to two of them
OtherHistory ==
    << Message(PyStr("user"), PyStr("Analyze Foo"), PyNone, 0),
       Message(PyStr("agent"), PyStr("Starting analysis..."), StepDict, 0) >>

\* the session file as found on disk: none, a truncated document, documents
\* lacking a key, and what another session saved
FoundFiles ==
    { NoFile, PartialFile,
      JsonFileWithoutSessionData(OtherHistory),
      JsonFileWithoutHistory(InitSessionData(PyStr("s2"), 0)),
      JsonFile([k \in DOMAIN InitSessionData(PyStr("s2"), 0) \ {"session_id"} |->
                   InitSessionData(PyStr("s2"), 0)[k]], OtherHistory),
      Written(InitSessionData(PyStr("s2"), 0), OtherHistory) }

\* MemoryManager('s1', max_history_length=1) beside a session file
InitLoad ==
    /\ now = 0
    /\ session_id = InitSessionId(PyStr("s1"), 0)
    /\ conversation_history = <<>>
    /\ max_history_length = 1
    /\ session_data = InitSessionData(InitSessionId(PyStr("s1"), 0), 0)
    /\ lastOp = Op("__init__", "", 1, PyStr("s1"), FALSE)
    /\ \E f \in FoundFiles : files = [p \in Paths |-> f]
    /\ ret = PyNone
    /\ added = <<>> /\ incCalls = 0 /\ tokensPassed = 0 /\ stored = <<>>
    /\ saved = NoSnapshot
    /\ steps = 0
    /\ evaluation_history = <<>> /\ disk = InitDisk /\ reportCalls = 0
    /\ pc = "idle" /\ run = NoRun

CallLoad ==
    \/ \E m \in MessageInputs : add_message(m.role, m.content, m.metadata)
    \/ \E kv \in StoreInputs : store_analysis_result(kv[1], kv[2])
    \/ get_session_stats
    \/ \E p \in Paths : save_to_file(p)
    \/ \E p \in Paths : load_from_file(p)
    \/ clear_history
    \/ Tick

NextLoad ==
    /\ steps < MaxSteps
    /\ steps' = steps + 1
    /\ CallLoad
    /\ UNCHANGED evaluator
    /\ UNCHANGED pipeline

SpecLoad == InitLoad /\ [][NextLoad]_vars

(* --------------------------- report pipelines -------------------------- *)
(* src/main.py: single_company_analysis and multi_company_comparison. A    *)
(* call to an agent (network, LLM, file system) returns or raises; which,  *)
(* is the environment's choice.                                            *)

\* main.py 234: `if 2 <= num_companies <= 5`
MinCompanies == 2
MaxCompanies == 5
\* main.py 311: `if len(companies_data) < 2`
MinAnalysed == 2
\* main.py 86-150: the agent steps of the single analysis before the report
AgentSteps == 5

PyDict(text) == [t |-> "dict", v |-> text]

\* the names typed at the prompts
Company(i) == "Co" \o ToString(i)
Companies(n) == [i \in 1..n |-> Company(i)]

\* main.py 182, 374: f'sessions/{memory.session_id}.json'
SessionFile(id) == "sessions/" \o id.v \o ".json"

\* the session object `memory` of a pipeline, with the ghosts kept for it
Session ==
    [h |-> conversation_history, sd |-> session_data, cap |-> max_history_length,
     added |-> added, inc |-> incCalls, stored |-> stored]

\* memory = MemoryManager() at clock value t
NewSession(t) ==
    [h |-> <<>>, sd |-> InitSessionData(NewSessionId(t), t), cap |-> DefaultMaxHistoryLength,
     added |-> <<>>, inc |-> 0, stored |-> <<>>]

\* memory.add_message(role, content, metadata)
AddMessage(s, role, content, metadata) ==
    [s EXCEPT !.h = Trim(Append(@, Message(PyStr(role), PyStr(content), metadata, now)), s.cap),
              !.sd = Put(@, "last_updated", IsoFormat(now)),
              !.added = Append(@, Message(PyStr(role), PyStr(content), metadata, now))]

\* memory.store_analysis_result(key, value)
StoreAnalysisResult(s, key, value) ==
    [s EXCEPT !.sd = Put(Put(@, key, value), "last_updated", IsoFormat(now)),
              !.stored = Put(@, key, value)]

\* memory.increment_analysis_count(); the pipelines store no value under
\* 'analysis_count', so the counter is the integer __init__ put there
IncrementAnalysisCount(s) ==
    [s EXCEPT !.sd = Put(Put(@, "analysis_count", Plus(s.sd["analysis_count"], 1)),
                         "last_updated", IsoFormat(now)),
              !.inc = @ + 1]

\* the session object is left as s
Commit(s) ==
    /\ conversation_history' = s.h
    /\ session_data' = s.sd
    /\ max_history_length' = s.cap
    /\ added' = s.added /\ incCalls' = s.inc /\ stored' = s.stored

\* mutant: the session save is not wrapped in a try block of its own
HandlerWithoutSaveGuard(mode, at) ==
    CASE mode = "single" /\ at \in {"step", "report", "save"} -> "except"
      [] mode = "multi" /\ at = "analyze" -> "skip"
      [] OTHER -> "none"

\* mutant: the per-company analysis is not wrapped in a try block
HandlerWithoutSkip(mode, at) ==
    CASE mode = "single" /\ at = "save" -> "pass"
      [] mode = "single" /\ at \in {"step", "report"} -> "except"
      [] mode = "multi" /\ at = "save" -> "pass"
      [] OTHER -> "none"

\* The except clause that catches an exception raised at a statement: the
\* innermost try block around it. single_company_analysis: the session save
\* is in `try ... except Exception: pass` (180-186) inside the try block of
\* the six steps (83-194); the agents are constructed before it (76-78).
\* multi_company_comparison: the analysis of one company (276-309) and the
\* session save (372-378) are in try blocks; nothing else is.
Handler(mode, at) ==
    CASE mode = "single" /\ at = "save" -> "pass"
      [] mode = "single" /\ at \in {"step", "report"} -> "except"
      [] mode = "multi" /\ at = "analyze" -> "skip"
      [] mode = "multi" /\ at = "save" -> "pass"
      [] OTHER -> "none"

\* The session and the position after an exception raised at `at`:
\* `pass` falls through to the closing print (188, 380); the except clause
\* of the single analysis logs the error and the function returns (190-194);
\* the except clause of the loop logs the error and the loop goes on
\* (305-309); an exception no clause catches leaves the function.
AfterRaise(s, mode, at, company, idx) ==
    CASE Handler(mode, at) = "pass" -> [s |-> s, pc |-> "done"]
      [] Handler(mode, at) = "except" ->
             [s |-> AddMessage(s, "system", "Error occurred: boom",
                               PyDict("{'error': True}")),
              pc |-> "handled"]
      [] Handler(mode, at) = "skip" ->
             [s |-> AddMessage(s, "system", "Error analyzing " \o company \o ": boom",
                               PyDict("{'company_index': " \o ToString(idx) \o ", 'error': True}")),
              pc |-> "loop"]
      [] OTHER -> [s |-> s, pc |-> "raised"]

\* the locals of a pipeline that has just created its session
StartedRun(mode, companies) ==
    [mode |-> mode, companies |-> companies, idx |-> 1, outcomes |-> <<>>,
     companies_data |-> <<>>, compared |-> FALSE, charts |-> 0, report |-> FALSE,
     save |-> "none"]

MainOp(mode, at, raised) ==
    Op(IF mode = "single" THEN "single_company_analysis" ELSE "multi_company_comparison",
       at, 0, PyNone, raised)

\* main.py 60-78: the prompt, the session, the agents
SingleStart(company_name, agents) ==
    /\ pc = "idle"
    /\ IF company_name = ""
       THEN /\ pc' = "returned"
            /\ run' = [mode |-> "single"]
            /\ UNCHANGED <<instance, ghosts>>
            /\ lastOp' = MainOp("single", "start", FALSE)
       ELSE /\ session_id' = NewSessionId(now)
            /\ Commit(StoreAnalysisResult(
                          AddMessage(NewSession(now), "user", "Analyze " \o company_name, PyNone),
                          "company_name", PyStr(company_name)))
            /\ tokensPassed' = 0
            /\ run' = StartedRun("single", <<company_name>>)
            /\ pc' = IF agents = "ok" THEN "step" ELSE "raised"
            /\ lastOp' = MainOp("single", "start", agents # "ok")
    /\ ret' = PyNone
    /\ UNCHANGED <<now, files, saved>>

\* what main.py 88-150 logs before and after the agent call of each step
StepStartText == << "Starting company research", "Starting competitor research",
                    "Starting competitive analysis", "Starting SWOT analysis",
                    "Starting pricing analysis" >>
StepDoneText(k, company_name) ==
    << "Completed research for " \o company_name, "Competitors identified",
       "Competitive analysis complete", "SWOT analysis complete",
       "Pricing analysis complete" >>[k]
StepMetadata(k) ==
    LET agent == << "ResearcherAgent", "ResearcherAgent", "AnalystAgent", "AnalystAgent",
                    "AnalystAgent", "ReportGeneratorAgent" >>
    IN  PyDict("{'step': " \o ToString(k) \o ", 'agent': '" \o agent[k] \o "'}")

\* main.py 84-150: step run.idx of the single analysis; the counter is
\* advanced once, after step 1 (line 96)
SingleStep(outcome) ==
    /\ pc = "step" /\ run.mode = "single"
    /\ LET k == run.idx
           s1 == AddMessage(Session, "system", StepStartText[k], StepMetadata(k))
           s2 == AddMessage(s1, "agent", StepDoneText(k, run.companies[1]),
                            StepMetadata(k))
           s3 == IF k = 1 THEN IncrementAnalysisCount(s2) ELSE s2
           r  == AfterRaise(s1, "single", "step", run.companies[1], k)
       IN  IF outcome = "ok"
           THEN /\ Commit(s3)
                /\ run' = [run EXCEPT !.idx = k + 1, !.outcomes = Append(@, TRUE)]
                /\ pc' = IF k = AgentSteps THEN "report" ELSE "step"
                /\ lastOp' = MainOp(run.mode, "step", FALSE)
           ELSE /\ Commit(r.s)
                /\ run' = [run EXCEPT !.outcomes = Append(@, FALSE)]
                /\ pc' = r.pc
                /\ lastOp' = MainOp(run.mode, "step", TRUE)
    /\ ret' = PyNone
    /\ UNCHANGED <<now, session_id, files, tokensPassed, saved>>

\* the record get_session_stats returns for the session s
StatsOf(s) ==
    [session_id |-> session_id,
     created_at |-> s.sd["created_at"],
     last_updated |-> s.sd["last_updated"],
     message_count |-> Len(s.h),
     analysis_count |-> s.sd["analysis_count"],
     total_tokens_used |-> s.sd["total_tokens_used"]]

\* main.py 153-177: step 6, the report is generated and written, then the
\* statistics are printed
SingleReport(outcome) ==
    /\ pc = "report" /\ run.mode = "single"
    /\ LET s1 == AddMessage(Session, "system", "Generating final report",
                            StepMetadata(6))
           s2 == AddMessage(s1, "agent", "Report saved: report.md",
                            StepMetadata(6))
           s3 == StoreAnalysisResult(s2, "report_filename", PyStr("report.md"))
           r  == AfterRaise(s1, "single", "report", run.companies[1], 6)
       IN  IF outcome = "ok"
           THEN /\ Commit(s3)
                /\ run' = [run EXCEPT !.report = TRUE]
                /\ pc' = "save"
                /\ ret' = StatsOf(s3)
                /\ lastOp' = MainOp(run.mode, "report", FALSE)
           ELSE /\ Commit(r.s)
                /\ run' = run
                /\ pc' = r.pc
                /\ ret' = PyNone
                /\ lastOp' = MainOp(run.mode, "report", TRUE)
    /\ UNCHANGED <<now, session_id, files, tokensPassed, saved>>

\* The outcomes of os.makedirs and memory.save_to_file: the file is written;
\* makedirs or open raises OSError and the file is as it was; or the write
\* fails after open emptied the file.
SaveOutcomes == {"ok", "not_opened", "not_written"}

\* main.py 179-188 and 371-380: the session save and the closing print
SaveSession(outcome) ==
    /\ pc = "save"
    /\ LET path == SessionFile(session_id)
           r == AfterRaise(Session, run.mode, "save", "", 0)
       IN  CASE outcome = "ok" /\ Dumpable(session_data, conversation_history) ->
                  /\ files' = [files EXCEPT ![path] = Written(session_data, conversation_history)]
                  /\ saved' = [session_id |-> session_id, session_data |-> session_data,
                               conversation_history |-> conversation_history]
                  /\ run' = [run EXCEPT !.save = "ok"]
                  /\ pc' = "done"
                  /\ UNCHANGED <<instance, ghosts>>
                  /\ lastOp' = MainOp(run.mode, "save", FALSE)
             [] OTHER ->
                  /\ files' = IF outcome = "not_opened" THEN files
                              ELSE [files EXCEPT ![path] = PartialFile]
                  /\ saved' = IF outcome = "not_opened" THEN saved ELSE NoSnapshot
                  /\ run' = [run EXCEPT !.save = "raised"]
                  /\ pc' = r.pc
                  /\ Commit(r.s)
                  /\ UNCHANGED <<session_id, tokensPassed>>
                  /\ lastOp' = MainOp(run.mode, "save", TRUE)
    /\ ret' = PyNone
    /\ UNCHANGED now

\* main.py 231-264: the prompts, the session, the two agents of the loop
MultiStart(num_companies, blank, agents) ==
    /\ pc = "idle"
    /\ num_companies \in MinCompanies..MaxCompanies
    /\ IF blank
       THEN /\ pc' = "returned"
            /\ run' = [mode |-> "multi"]
            /\ UNCHANGED <<instance, ghosts>>
            /\ lastOp' = MainOp("multi", "start", FALSE)
       ELSE /\ session_id' = NewSessionId(now)
            /\ Commit(StoreAnalysisResult(
                        StoreAnalysisResult(
                          AddMessage(NewSession(now), "user",
                                     "Compare: " \o Join(Companies(num_companies), ", "),
                                     PyNone),
                          "companies",
                          [t |-> "list", v |-> Join(Companies(num_companies), ", ")]),
                        "comparison_mode", [t |-> "bool", v |-> "True"]))
            /\ tokensPassed' = 0
            /\ run' = StartedRun("multi", Companies(num_companies))
            /\ pc' = IF agents = "ok" THEN "loop" ELSE "raised"
            /\ lastOp' = MainOp("multi", "start", agents # "ok")
    /\ ret' = PyNone
    /\ UNCHANGED <<now, files, saved>>

\* main.py 266-309: one turn of the loop over the companies
AnalyzeCompany(outcome) ==
    /\ pc = "loop" /\ run.mode = "multi"
    /\ run.idx <= Len(run.companies)
    /\ LET idx == run.idx
           company_name == run.companies[idx]
           s1 == AddMessage(Session, "system", "Starting analysis for " \o company_name,
                            PyDict("{'company_index': " \o ToString(idx) \o ", 'total_companies': "
                                   \o ToString(Len(run.companies)) \o "}"))
           s2 == IncrementAnalysisCount(
                    AddMessage(s1, "agent", "Completed analysis for " \o company_name,
                               PyDict("{'company_index': " \o ToString(idx) \o ", 'success': True}")))
           r  == AfterRaise(s1, "multi", "analyze", company_name, idx)
       IN  IF outcome = "ok"
           THEN /\ Commit(s2)
                /\ run' = [run EXCEPT !.idx = idx + 1, !.outcomes = Append(@, TRUE),
                                      !.companies_data = Append(@, company_name)]
                /\ pc' = "loop"
                /\ lastOp' = MainOp(run.mode, "analyze", FALSE)
           ELSE /\ Commit(r.s)
                /\ run' = [run EXCEPT !.idx = idx + 1, !.outcomes = Append(@, FALSE)]
                /\ pc' = r.pc
                /\ lastOp' = MainOp(run.mode, "analyze", TRUE)
    /\ ret' = PyNone
    /\ UNCHANGED <<now, session_id, files, tokensPassed, saved>>

\* main.py 311-321: after the loop, the test on the number of companies
\* analysed
CheckAnalysed ==
    /\ pc = "loop" /\ run.mode = "multi"
    /\ run.idx > Len(run.companies)
    /\ IF Len(run.companies_data) < MinAnalysed
       THEN /\ Commit(AddMessage(Session, "system", "Comparison failed: insufficient data",
                                 PyNone))
            /\ pc' = "insufficient"
       ELSE /\ Commit(AddMessage(Session, "system", "Starting comparison report generation",
                                 PyDict("{'agent': 'ComparisonAgent'}")))
            /\ pc' = "compare"
    /\ run' = run
    /\ lastOp' = MainOp(run.mode, "check", FALSE)
    /\ ret' = PyNone
    /\ UNCHANGED <<now, session_id, files, tokensPassed, saved>>

\* main.py 323-334: the comparison agent
CompareCompanies(outcome) ==
    /\ pc = "compare"
    /\ LET s2 == AddMessage(
                    AddMessage(Session, "agent", "Comparison report generated",
                               PyDict("{'agent': 'ComparisonAgent'}")),
                    "system", "Starting visualization generation",
                    PyDict("{'agent': 'VisualGeneratorAgent'}"))
           r  == AfterRaise(Session, "multi", "compare", "", 0)
       IN  IF outcome = "ok"
           THEN /\ Commit(s2)
                /\ run' = [run EXCEPT !.compared = TRUE]
                /\ pc' = "charts"
                /\ lastOp' = MainOp(run.mode, "compare", FALSE)
           ELSE /\ Commit(r.s)
                /\ run' = run
                /\ pc' = r.pc
                /\ lastOp' = MainOp(run.mode, "compare", TRUE)
    /\ ret' = PyNone
    /\ UNCHANGED <<now, session_id, files, tokensPassed, saved>>

\* visual_generator.py 425-452: the radar chart, the bar chart and the
\* heatmap are written in this order; `written` of them exist when the call
\* returns (3) or raises (0, 1 or 2)
ChartKinds == <<"radar", "bar", "heatmap">>

\* main.py 336-340: the charts
GenerateAllCharts(written) ==
    /\ pc = "charts"
    /\ written \in 0..Len(ChartKinds)
    /\ LET s1 == AddMessage(Session, "agent", "Generated " \o ToString(Len(ChartKinds)) \o " charts",
                            PyDict("{'agent': 'VisualGeneratorAgent', 'charts': ['radar', 'bar', 'heatmap']}"))
           r  == AfterRaise(Session, "multi", "charts", "", 0)
       IN  IF written = Len(ChartKinds)
           THEN /\ Commit(s1)
                /\ pc' = "report"
                /\ lastOp' = MainOp(run.mode, "charts", FALSE)
           ELSE /\ Commit(r.s)
                /\ pc' = r.pc
                /\ lastOp' = MainOp(run.mode, "charts", TRUE)
    /\ run' = [run EXCEPT !.charts = written]
    /\ ret' = PyNone
    /\ UNCHANGED <<now, session_id, files, tokensPassed, saved>>

\* main.py 342-369: the comparison report is generated and written, then
\* the statistics are printed
SaveComparisonReport(outcome) ==
    /\ pc = "report" /\ run.mode = "multi"
    /\ LET s2 == StoreAnalysisResult(
                    StoreAnalysisResult(Session, "comparison_report_filename",
                                        PyStr("comparison.md")),
                    "charts_generated", PyDict("{'radar': ..., 'bar': ..., 'heatmap': ...}"))
           r  == AfterRaise(Session, "multi", "report", "", 0)
       IN  IF outcome = "ok"
           THEN /\ Commit(s2)
                /\ run' = [run EXCEPT !.report = TRUE]
                /\ pc' = "save"
                /\ ret' = StatsOf(s2)
                /\ lastOp' = MainOp(run.mode, "report", FALSE)
           ELSE /\ Commit(r.s)
                /\ run' = run
                /\ pc' = r.pc
                /\ ret' = PyNone
                /\ lastOp' = MainOp(run.mode, "report", TRUE)
    /\ UNCHANGED <<now, session_id, files, tokensPassed, saved>>

\* main.py 383-433: no session exists until a pipeline creates one
InitMain ==
    /\ now = 0
    /\ session_id = PyNone
    /\ conversation_history = <<>>
    /\ max_history_length = DefaultMaxHistoryLength
    /\ session_data = <<>>
    /\ files = [p \in { SessionFile(NewSessionId(t)) : t \in 0..MaxTime } |-> NoFile]
    /\ added = <<>> /\ incCalls = 0 /\ tokensPassed = 0 /\ stored = <<>>
    /\ saved = NoSnapshot
    /\ evaluation_history = <<>> /\ disk = InitDisk /\ reportCalls = 0
    /\ pc = "idle" /\ run = NoRun
    /\ lastOp = Op("main", "", 0, PyNone, FALSE)
    /\ ret = PyNone
    /\ steps = 0

AgentOutcomes == {"ok", "raises"}

\* main(): one of the two pipelines is run once; the clock advances as it
\* runs
StepMain ==
    \/ \E company_name \in {"", Company(1)}, agents \in AgentOutcomes :
          SingleStart(company_name, agents)
    \/ \E outcome \in AgentOutcomes : SingleStep(outcome)
    \/ \E outcome \in AgentOutcomes : SingleReport(outcome)
    \/ \E outcome \in SaveOutcomes : SaveSession(outcome)
    \/ \E n \in MinCompanies..MaxCompanies, blank \in BOOLEAN, agents \in AgentOutcomes :
          MultiStart(n, blank, agents)
    \/ \E outcome \in AgentOutcomes : AnalyzeCompany(outcome)
    \/ CheckAnalysed
    \/ \E outcome \in AgentOutcomes : CompareCompanies(outcome)
    \/ \E written \in 0..Len(ChartKinds) : GenerateAllCharts(written)
    \/ \E outcome \in AgentOutcomes : SaveComparisonReport(outcome)
    \/ Tick /\ UNCHANGED pipeline

NextMain ==
    /\ StepMain
    /\ UNCHANGED evaluator
    /\ UNCHANGED steps

SpecMain == InitMain /\ [][NextMain]_vars

(* ------------------------------ claims -------------------------------- *)

\* the last k elements of seq, for 0 <= k <= Len(seq)
LastN(seq, k) == SubSeq(seq, Len(seq) - k + 1, Len(seq))
Min(a, b) == IF a < b THEN a ELSE b

AnalysisCount == session_data["analysis_count"].v
TotalTokens == session_data["total_tokens_used"].v
BookkeepingKeys ==
    {"session_id", "created_at", "last_updated", "analysis_count", "total_tokens_used"}

\* C1: right after every add_message call the history holds at most
\* max_history_length messages, for every cap >= 0.
C1_CapAfterAdd ==
    (lastOp.op = "add_message" /\ max_history_length >= 0)
        => Len(conversation_history) <= max_history_length

\* C2: on a session that has only seen add_message, store_analysis_result,
\* increment_analysis_count, add_tokens_used, get_recent_context,
\* get_session_stats and save_to_file (the calls of SpecLog), the history is
\* the last min(n, max_history_length) of the n messages added, in order and
\* as they were appended.
C2_HistoryIsSuffixOfAdded ==
    conversation_history = LastN(added, Min(Len(added), max_history_length))

\* every value of the snapshot is a JSON value: none, number, string, mapping or list
JsonCompatible(snap) ==
    /\ \A k \in DOMAIN snap.session_data :
          snap.session_data[k].t \in {"none", "int", "str", "dict", "list"}
    /\ \A i \in 1..Len(snap.conversation_history) :
          snap.conversation_history[i].metadata.t \in {"none", "dict"}

\* C3: after save_to_file the saving session is as it was; a load of that
\* file on a fresh instance gives it the saved session's result bag, history
\* and id, whenever the saved values are JSON-compatible.
C3_RoundTrip ==
    /\ []((lastOp.op = "save_to_file" /\ ~lastOp.raised)
            => /\ saved.session_id = session_id
               /\ saved.session_data = session_data
               /\ saved.conversation_history = conversation_history)
    /\ [][(/\ lastOp.op = "__init__"
           /\ lastOp'.op = "load_from_file" /\ ~lastOp'.raised
           /\ JsonCompatible(saved))
            => /\ session_data' = saved.session_data
               /\ conversation_history' = saved.conversation_history
               /\ session_id' = saved.session_id]_vars

\* C4 as claimed: no call on a session lowers analysis_count.
C4_CountNeverDecreases ==
    [][lastOp'.op # "__init__" => AnalysisCount' >= AnalysisCount]_vars

\* the calls that replace the counter: reset_session (to 0), load_from_file
\* (to the file's value) and store_analysis_result('analysis_count', v) (to v)
SetsAnalysisCount(o) ==
    \/ o.op \in {"__init__", "reset_session", "load_from_file"}
    \/ o.op = "store_analysis_result" /\ o.k = "analysis_count"

\* C4 (amended): analysis_count never decreases across add_message,
\* store_analysis_result with a key other than 'analysis_count',
\* increment_analysis_count, add_tokens_used, clear_history, save_to_file and
\* the read-only calls.
C4_CountDecreasesOnlyWhenSet ==
    [][~SetsAnalysisCount(lastOp') => AnalysisCount' >= AnalysisCount]_vars

C4_Witness ==
    /\ lastOp.op = "clear_history"
    /\ AnalysisCount = MaxCount

\* C5: add_tokens_used never lowers total_tokens_used, which is the sum of
\* the n passed since the session was constructed.
C5_TokensMonotonicSum ==
    /\ [][lastOp'.op = "add_tokens_used" => TotalTokens' >= TotalTokens]_vars
    /\ [](TotalTokens = tokensPassed)

\* C6: get_recent_context(max_turns), max_turns >= 0, returns the last
\* min(max_turns, len) messages, changes nothing, and returns the same
\* again when repeated.
C6_RecentContextIsLastTurns ==
    /\ [](lastOp.op = "get_recent_context" /\ lastOp.n >= 0
            => ret = LastN(conversation_history,
                           Min(lastOp.n, Len(conversation_history))))
    /\ [][lastOp'.op = "get_recent_context" => UNCHANGED <<instance, files>>]_vars
    /\ [][(lastOp.op = "get_recent_context" /\ lastOp' = lastOp) => ret' = ret]_vars

\* C7: reset_session leaves a new id, an empty history, zeroed counters and
\* none of the stored result keys.
C7_ResetIsBrandNew ==
    [][lastOp'.op = "reset_session"
         => /\ session_id' # session_id
            /\ conversation_history' = <<>>
            /\ AnalysisCount' = 0 /\ TotalTokens' = 0
            /\ DOMAIN session_data' = BookkeepingKeys]_vars

\* C8: clear_history empties the history and changes neither the result
\* bag, nor the id, nor the cap.
C8_ClearHistoryFrame ==
    [][lastOp'.op = "clear_history"
         => /\ conversation_history' = <<>>
            /\ session_data' = session_data
            /\ session_id' = session_id
            /\ max_history_length' = max_history_length]_vars

C8_Witness ==
    /\ lastOp.op = "clear_history"
    /\ "company_name" \in DOMAIN session_data
    /\ Len(added) >= 1 /\ max_history_length >= 1
    /\ session_data["last_updated"] # IsoFormat(now)

\* C9 as claimed: the snapshot's message_count is the history length and its
\* analysis_count the number of increment_analysis_count calls.
C9_StatsCountIncrementCalls ==
    lastOp.op = "get_session_stats"
        => /\ ret.message_count = Len(conversation_history)
           /\ ret.analysis_count = PyInt(incCalls)

\* C9 (amended): the snapshot's message_count is the history length and its
\* analysis_count the result bag's analysis_count; the call changes no
\* state; the bag's analysis_count goes up by one on each
\* increment_analysis_count and is otherwise changed only by the calls that
\* replace it (reset_session, load_from_file,
\* store_analysis_result('analysis_count', v)).
C9_StatsSnapshot ==
    /\ [](lastOp.op = "get_session_stats"
            => /\ ret.message_count = Len(conversation_history)
               /\ ret.analysis_count = session_data["analysis_count"]
               /\ ret.session_id = session_id)
    /\ [][lastOp'.op = "get_session_stats" => UNCHANGED <<instance, files>>]_vars
    /\ [][(lastOp'.op = "increment_analysis_count" /\ ~lastOp'.raised)
            => AnalysisCount' = AnalysisCount + 1]_vars
    /\ [][~(SetsAnalysisCount(lastOp') \/ lastOp'.op = "increment_analysis_count")
            => AnalysisCount' = AnalysisCount]_vars

C9_Witness ==
    /\ lastOp.op = "get_session_stats"
    /\ ret.message_count = 1
    /\ ret.analysis_count = PyInt(1)
    /\ incCalls = 1

\* C10 as claimed: get_analysis_result(k, d) returns the value last stored
\* under k, and d for a key never stored.
C10_GetReturnsLastStored ==
    lastOp.op = "get_analysis_result"
        => ret = IF lastOp.k \in DOMAIN stored THEN stored[lastOp.k] ELSE lastOp.val

\* C10 (amended): get_analysis_result(k, d) returns the result bag's value
\* of k, and d when the bag has no key k, and changes no state;
\* store_analysis_result(k, v) sets k to v (to the current timestamp when k
\* is 'last_updated'), changes no other key but last_updated and leaves the
\* history alone; a key that is not a bookkeeping key keeps its value until
\* it is stored again or the bag is replaced (reset_session, load_from_file).
C10_StoreUpsertGetLookup ==
    /\ [](lastOp.op = "get_analysis_result"
            => ret = IF lastOp.k \in DOMAIN session_data
                     THEN session_data[lastOp.k] ELSE lastOp.val)
    /\ [][lastOp'.op = "get_analysis_result" => UNCHANGED <<instance, files>>]_vars
    /\ [][lastOp'.op = "store_analysis_result"
            => /\ DOMAIN session_data' = DOMAIN session_data \cup {lastOp'.k}
               /\ session_data'[lastOp'.k] =
                     IF lastOp'.k = "last_updated" THEN IsoFormat(now) ELSE lastOp'.val
               /\ \A k \in DOMAIN session_data \ {lastOp'.k, "last_updated"} :
                     session_data'[k] = session_data[k]
               /\ UNCHANGED <<session_id, conversation_history, max_history_length>>]_vars
    /\ [][\A k \in DOMAIN session_data \ BookkeepingKeys :
            \/ lastOp'.op \in {"__init__", "reset_session", "load_from_file"}
            \/ lastOp'.op = "store_analysis_result" /\ lastOp'.k = k
            \/ k \in DOMAIN session_data' /\ session_data'[k] = session_data[k]]_vars

C10_Witness ==
    /\ lastOp.op = "get_analysis_result"
    /\ lastOp.k = "company_name"
    /\ lastOp.val = PyInt(0)
    /\ ret = PyStr("Foo")

\* C11: store_analysis_result never raises, whatever the value, and the
\* value is then readable through get_analysis_result; a value that is not
\* JSON-serializable makes every later save_to_file raise, and a bag and
\* history of serializable values never do.
C11_SerializationErrorAtSaveTime ==
    /\ (lastOp.op = "store_analysis_result"
          => /\ ~lastOp.raised
             /\ lastOp.k # "last_updated" => session_data[lastOp.k] = lastOp.val)
    /\ (lastOp.op = "get_analysis_result" /\ lastOp.k \in DOMAIN stored
          /\ lastOp.k \notin BookkeepingKeys /\ lastOp.k \in DOMAIN session_data
          /\ session_data[lastOp.k] = stored[lastOp.k]
          => ~lastOp.raised /\ ret = stored[lastOp.k])
    /\ (lastOp.op = "save_to_file"
          => (lastOp.raised <=>
                \/ \E k \in DOMAIN session_data : session_data[k].t = "set"
                \/ \E i \in 1..Len(conversation_history) :
                      conversation_history[i].metadata.t = "set"))

C11_Witness ==
    /\ lastOp.op = "save_to_file" /\ lastOp.raised
    /\ "company_name" \in DOMAIN session_data
    /\ session_data["company_name"] = SetVal
    /\ stored["company_name"] = SetVal
    /\ files[SessionPath].kind = "partial"

\* the last call was a scoring call and returned an evaluation record
Scored(op) == lastOp.op = op /\ ~lastOp.raised

Abs(x) == IF x < 0 THEN -x ELSE x

\* C12 (as stated): whenever evaluate_report or evaluate_comparison returns a
\* record, its completeness_score and quality_score lie in [0,100] and its
\* overall_score is exactly their mean.
C12_OverallIsExactMean ==
    Scored("evaluate_report") \/ Scored("evaluate_comparison")
       => /\ ret.completeness_score \in 0..10000
          /\ ret.quality_score \in 0..10000
          /\ 2 * ret.overall_score = ret.completeness_score + ret.quality_score

\* C12 (amended): whenever evaluate_report or evaluate_comparison returns a
\* record, its completeness_score, quality_score and overall_score lie in
\* [0,100] and its overall_score is the mean of the other two rounded to two
\* decimals, so that it is within 0.005 of that mean.
C12_OverallIsRoundedMean ==
    Scored("evaluate_report") \/ Scored("evaluate_comparison")
       => /\ ret.completeness_score \in 0..10000
          /\ ret.quality_score \in 0..10000
          /\ ret.overall_score \in 0..10000
          /\ Abs(2 * ret.overall_score
                 - (ret.completeness_score + ret.quality_score)) <= 1

C12_Witness ==
    /\ Scored("evaluate_comparison")
    /\ ret.completeness_score = 1111
    /\ ret.quality_score = 3000
    /\ ret.overall_score = 2056

\* C13: the quality_score evaluate_report returns is the sum, capped at 100,
\* of the word-count tier (>= 5000: 30, >= 3000: 25, >= 2000: 20, >= 1000: 15,
\* else 10), the SWOT award (25 when the four parts are found, otherwise 15
\* when the SWOT Analysis heading is found, otherwise 0), the structure award
\* (bullets >= 20: 15, >= 10: 10, else 0, plus headers >= 8: 10, >= 5: 5,
\* else 0) and 10 each for a found Recommendations and a found Conclusion.
C13_QualityIsSumOfAwards ==
    Scored("evaluate_report") =>
       LET report == lastOp.args.report
           Has(name) == InSeq(name, ret.sections_found)
           words == report.word_count
           tier == CASE words >= 5000 -> 30
                     [] words \in 3000..4999 -> 25
                     [] words \in 2000..2999 -> 20
                     [] words \in 1000..1999 -> 15
                     [] words < 1000 -> 10
           swot == CASE Has("Strengths") /\ Has("Weaknesses")
                        /\ Has("Opportunities") /\ Has("Threats") -> 25
                     [] OTHER -> IF Has("SWOT Analysis") THEN 15 ELSE 0
           bullets == CASE report.bullets >= 20 -> 15
                        [] report.bullets \in 10..19 -> 10
                        [] report.bullets < 10 -> 0
           headers == CASE report.headers >= 8 -> 10
                        [] report.headers \in 5..7 -> 5
                        [] report.headers < 5 -> 0
           strategic == (IF Has("Recommendations") THEN 10 ELSE 0)
                        + (IF Has("Conclusion") THEN 10 ELSE 0)
       IN  ret.quality_score
             = 100 * Min(100, tier + swot + bullets + headers + strategic)

C13_Witness ==
    /\ Scored("evaluate_report")
    /\ ret.word_count = 2000
    /\ ret.metrics.has_swot /\ ~ret.metrics.has_all_swot_parts
    /\ ret.metrics.bullet_points = 10 /\ ret.metrics.headers = 5
    /\ ret.metrics.has_recommendations /\ ~ret.metrics.has_conclusion
    /\ ret.quality_score = 6000

\* the place of a section name in the table of required sections
TableIndex(name) == CHOOSE i \in 1..Len(RequiredSections) : RequiredSections[i] = name

\* seq lists names of the table, each at most once, in table order
InTableOrder(seq) ==
    /\ \A i \in 1..Len(seq) : InSeq(seq[i], RequiredSections)
    /\ \A i, j \in 1..Len(seq) : i < j => TableIndex(seq[i]) < TableIndex(seq[j])

\* sections_found and sections_missing partition the table of eleven names,
\* each list in table order
C14_Partition ==
    /\ Len(RequiredSections) = 11
    /\ InTableOrder(ret.sections_found)
    /\ InTableOrder(ret.sections_missing)
    /\ \A i \in 1..11 :
          InSeq(RequiredSections[i], ret.sections_found)
             # InSeq(RequiredSections[i], ret.sections_missing)

\* C14 (as stated): for every report text the two lists partition the table
\* of eleven section names, in table order, and completeness_score is
\* exactly 100 x (number of sections found / 11).
C14_CompletenessIsExactRatio ==
    Scored("evaluate_report") =>
       /\ C14_Partition
       /\ 11 * ret.completeness_score = 100 * 100 * Len(ret.sections_found)

\* C14 (amended): for every report text the two lists partition the table of
\* eleven section names, in table order, and completeness_score is
\* 100 x (number of sections found / 11) rounded to two decimals, the
\* hundredth nearest to the ratio.
C14_CompletenessIsRoundedRatio ==
    Scored("evaluate_report") =>
       /\ C14_Partition
       /\ 2 * Abs(11 * ret.completeness_score
                  - 100 * 100 * Len(ret.sections_found)) < 11

C14_Witness ==
    /\ Scored("evaluate_report")
    /\ Len(ret.sections_found) = 6
    /\ Len(ret.sections_missing) = 5
    /\ ret.sections_missing[1] = "Executive Summary"
    /\ ret.completeness_score = 5455

\* C15: evaluate_report on the empty string yields word_count 0,
\* completeness_score 0, no section found and all eleven missing, a
\* quality_score of 10 (the lowest word-count tier and no other award) and an
\* overall_score of 5.
C15_EmptyReport ==
    Scored("evaluate_report") /\ lastOp.args.report = EmptyReport =>
       /\ ret.word_count = 0
       /\ ret.completeness_score = 0
       /\ ret.sections_found = <<>>
       /\ ret.sections_missing = RequiredSections
       /\ Len(ret.sections_missing) = 11
       /\ ~ret.metrics.has_swot /\ ~ret.metrics.has_all_swot_parts
       /\ ~ret.metrics.has_recommendations /\ ~ret.metrics.has_conclusion
       /\ ret.metrics.bullet_points = 0 /\ ret.metrics.headers = 0
       /\ ret.quality_score = 10 * 100
       /\ ret.overall_score = 5 * 100

C15_Witness ==
    /\ Scored("evaluate_report")
    /\ lastOp.args.report = EmptyReport
    /\ ret.char_count = 0
    /\ ret.overall_score = 500
    /\ evaluation_history = <<ret>>

\* C16: for every report in which all eleven required sections are found and
\* which has at least 5000 words, 20 bullet markers and 8 header markers,
\* evaluate_report yields completeness_score, quality_score and overall_score
\* of 100 and no recommendation.
C16_FullReport ==
    /\ Scored("evaluate_report")
    /\ Len(ret.sections_found) = 11
    /\ lastOp.args.report.word_count >= 5000
    /\ lastOp.args.report.bullets >= 20
    /\ lastOp.args.report.headers >= 8
    => /\ ret.completeness_score = 100 * 100
       /\ ret.quality_score = 100 * 100
       /\ ret.overall_score = 100 * 100
       /\ ret.recommendations = <<>>

C16_Witness ==
    /\ Scored("evaluate_report")
    /\ lastOp.args.report = ReportText(30000, 5000, SectionHeadings, 20, 8)
    /\ ret.sections_found = RequiredSections
    /\ ret.overall_score = 10000
    /\ ret.recommendations = <<>>

\* C17: the recommendations evaluate_report returns are, in this order and
\* each at most once: the SWOT recommendation iff one of the four SWOT parts
\* is missing, the more-detail recommendation iff word_count < 3000, the
\* add-recommendations recommendation iff the Recommendations section is
\* missing, and the missing-sections recommendation iff more than 3 sections
\* are missing, naming the first three missing sections in table order.
C17_Recommendations ==
    Scored("evaluate_report") =>
       LET missing == ret.sections_missing
           candidates ==
             << [on   |-> \E part \in {"Strengths", "Weaknesses",
                                       "Opportunities", "Threats"} :
                             InSeq(part, missing),
                 text |-> "Ensure all SWOT components are present"],
                [on   |-> ret.word_count < 3000,
                 text |-> "Consider adding more detailed analysis"],
                [on   |-> InSeq("Recommendations", missing),
                 text |-> "Add strategic recommendations section"],
                [on   |-> Len(missing) > 3,
                 text |-> IF Len(missing) > 3
                          THEN "Missing key sections: " \o missing[1] \o ", "
                               \o missing[2] \o ", " \o missing[3]
                          ELSE ""] >>
           due == SelectSeq(candidates, LAMBDA c : c.on)
       IN  /\ InTableOrder(missing)
           /\ ret.recommendations = [i \in 1..Len(due) |-> due[i].text]

C17_Witness ==
    /\ Scored("evaluate_report")
    /\ Len(ret.sections_missing) = 5
    /\ ret.recommendations =
          << "Consider adding more detailed analysis",
             "Missing key sections: Executive Summary, Company Overview, Competitive Analysis" >>

\* C19: in evaluate_comparison balanced_coverage is true exactly when the
\* smallest mention count over the companies is above 0 and the largest is
\* less than twice the smallest; when some company has no mention (companies
\* [A, B] with A mentioned 5 times and B not at all) the call returns, with
\* all_companies_mentioned and balanced_coverage both false.
C19_BalancedCoverage ==
    lastOp.op = "evaluate_comparison" /\ lastOp.args.companies # <<>> =>
       LET text   == lastOp.args.comparison_report
           names  == lastOp.args.companies
           counts == {text.mentions[Lower(names[i])] : i \in 1..Len(names)}
           lo     == CHOOSE m \in counts : \A c \in counts : m <= c
           hi     == CHOOSE m \in counts : \A c \in counts : m >= c
       IN  /\ ~lastOp.raised
           /\ ret.metrics.balanced_coverage <=> (lo > 0 /\ hi < 2 * lo)
           /\ 0 \in counts => /\ ~ret.metrics.all_companies_mentioned
                              /\ ~ret.metrics.balanced_coverage

C19_Witness ==
    /\ Scored("evaluate_comparison")
    /\ lastOp.args.companies = <<"Acme", "Bolt">>
    /\ lastOp.args.comparison_report.mentions["acme"] = 5
    /\ lastOp.args.comparison_report.mentions["bolt"] = 0
    /\ ~ret.metrics.all_companies_mentioned
    /\ ~ret.metrics.balanced_coverage

\* C20: evaluate_comparison returns an evaluation record for every
\* comparison text and every list of company names, the empty list, a
\* single company and duplicate names included; it never raises.
C20_ComparisonNeverRaises ==
    lastOp.op = "evaluate_comparison" =>
       /\ ~lastOp.raised
       /\ ret.num_companies = Len(lastOp.args.companies)

\* C18: every evaluate_report call appends the record it returns to the end
\* of the evaluator's history, and no call removes or reorders the records
\* already there; in every interleaving of evaluate_report,
\* evaluate_comparison, evaluate_charts, get_evaluation_summary and
\* save_evaluation the history holds one record per evaluate_report call, and
\* the total_evaluations get_evaluation_summary reports is the number of
\* evaluate_report calls made (the summary of an evaluator with no report
\* evaluated is the 'No evaluations yet' message, which reports no total).
C18_HistoryCountsReports ==
    /\ [](Len(evaluation_history) = reportCalls)
    /\ [](lastOp.op = "get_evaluation_summary"
            => /\ ~lastOp.raised
               /\ IF reportCalls = 0
                  THEN ret = [message |-> "No evaluations yet"]
                  ELSE ret.total_evaluations = reportCalls)
    /\ [][/\ lastOp'.op = "evaluate_report"
             => /\ evaluation_history' = Append(evaluation_history, ret')
                /\ reportCalls' = reportCalls + 1
          /\ lastOp'.op # "evaluate_report"
             => /\ evaluation_history' = evaluation_history
                /\ reportCalls' = reportCalls]_vars

C18_Witness ==
    /\ lastOp.op = "get_evaluation_summary"
    /\ reportCalls = 2
    /\ ret.total_evaluations = 2
    /\ ret.evaluations = evaluation_history
    /\ evaluation_history[1].company_name = PyStr("Acme")
    /\ evaluation_history[2].company_name = PyNone
    /\ "evaluations" \in disk.dirs

\* the overall scores of the history, and their sum
HistoryScores == {evaluation_history[i].overall_score : i \in 1..Len(evaluation_history)}
HistoryTotal ==
    Sum([i \in 1..Len(evaluation_history) |-> evaluation_history[i].overall_score])

\* what get_evaluation_summary returns apart from the average: the sentinel
\* for an empty history, else the count, the maximum, the minimum and the
\* history itself
C21_SummaryShape ==
    /\ ~lastOp.raised
    /\ IF evaluation_history = <<>>
       THEN ret = [message |-> "No evaluations yet"]
       ELSE /\ ret.total_evaluations = Len(evaluation_history)
            /\ ret.highest_score \in HistoryScores
            /\ \A x \in HistoryScores : x <= ret.highest_score
            /\ ret.lowest_score \in HistoryScores
            /\ \A x \in HistoryScores : x >= ret.lowest_score
            /\ ret.lowest_score <= ret.average_score
            /\ ret.average_score <= ret.highest_score

\* C21 (as stated): get_evaluation_summary never raises and leaves the
\* history as it is; for an empty history it returns the 'no evaluations
\* yet' sentinel, otherwise total_evaluations = history length, average_score
\* = the mean of the overall scores, highest_score = their maximum and
\* lowest_score = their minimum, with lowest <= average <= highest.
C21_AverageIsExactMean ==
    /\ [](lastOp.op = "get_evaluation_summary"
            => /\ C21_SummaryShape
               /\ evaluation_history # <<>>
                  => Len(evaluation_history) * ret.average_score = HistoryTotal)
    /\ [][lastOp'.op = "get_evaluation_summary"
             => evaluation_history' = evaluation_history]_vars

\* C21 (amended): as above, with average_score the mean of the overall
\* scores rounded to two decimals (within 0.005 of the mean).
C21_AverageIsRoundedMean ==
    /\ [](lastOp.op = "get_evaluation_summary"
            => /\ C21_SummaryShape
               /\ evaluation_history # <<>>
                  => 2 * Abs(Len(evaluation_history) * ret.average_score
                             - HistoryTotal) <= Len(evaluation_history))
    /\ [][lastOp'.op = "get_evaluation_summary"
             => evaluation_history' = evaluation_history]_vars

C21_Witness ==
    /\ lastOp.op = "get_evaluation_summary"
    /\ Len(evaluation_history) = 3
    /\ HistoryTotal = 1955
    /\ ret.average_score = 652
    /\ ret.lowest_score = 500 /\ ret.highest_score = 955

\* C22: every file save_evaluation has written is a JSON object with the
\* keys total_evaluations, average_score, highest_score, lowest_score and
\* evaluations, whatever the history was at the time of the call.
C22_SavedFileHasSummaryKeys ==
    \A p \in DOMAIN disk.files :
       disk.files[p].kind = "json"
          => DOMAIN disk.files[p].value
               = {"total_evaluations", "average_score", "highest_score",
                  "lowest_score", "evaluations"}

\* C23: for every chart_path_map evaluate_charts returns, for each of the
\* three expected kinds radar, bar and heatmap, a record saying whether the
\* file of that kind exists on disk and its size in bytes, and a score of
\* 100 x (number of paths provided / 3); it creates no file.
C23_ChartRecordsForExpectedKinds ==
    /\ [](lastOp.op = "evaluate_charts" =>
            LET chart_paths == lastOp.args.chart_paths
            IN  /\ ~lastOp.raised
                /\ \A kind \in {"radar", "bar", "heatmap"} :
                      /\ kind \in DOMAIN ret.charts
                      /\ ret.charts[kind].exists
                           = (Truthy(chart_paths[kind])
                              /\ chart_paths[kind].v \in DOMAIN disk.files)
                      /\ ret.charts[kind].size
                           = IF ret.charts[kind].exists
                             THEN disk.files[chart_paths[kind].v].size ELSE 0
                /\ 3 * ret.score.num
                     = 100 * Cardinality(DOMAIN chart_paths) * ret.score.den)
    /\ [][lastOp'.op = "evaluate_charts" => disk' = disk]_vars

\* C29: in evaluate_charts the score lies in [0,100], and it is 100 exactly
\* when all_charts_present is true (radar, bar and heatmap are all keys of
\* the map).
C29_ChartScoreAgreesWithFlag ==
    lastOp.op = "evaluate_charts" =>
       /\ 0 <= ret.score.num
       /\ ret.score.num <= 100 * ret.score.den
       /\ ret.all_charts_present
            = ({"radar", "bar", "heatmap"} \subseteq DOMAIN lastOp.args.chart_paths)
       /\ (ret.score.num = 100 * ret.score.den) = ret.all_charts_present

\* C25: a load_from_file call that fails (no file, malformed JSON, or a file
\* without session_data, conversation_history or session_data.session_id)
\* leaves the session's id, result bag and message history as they were.
C25_FailedLoadChangesNothing ==
    [][lastOp'.op = "load_from_file" /\ lastOp'.raised
          => /\ session_id' = session_id
             /\ session_data' = session_data
             /\ conversation_history' = conversation_history]_vars

\* C26: in every reachable state the instance's session_id, which
\* get_session_stats reports and the default save filename uses, equals the
\* session_id held in the result bag that save_to_file persists and
\* load_from_file restores.
C26_SessionIdAgrees ==
    /\ "session_id" \in DOMAIN session_data
    /\ session_data["session_id"] = session_id
    /\ lastOp.op = "get_session_stats" => ret.session_id = session_data["session_id"]

\* C27: in every reachable state, also after load_from_file of a file saved
\* by a session with a larger max_history_length, the history is no longer
\* than the instance's max_history_length.
C27_CapInEveryState == Len(conversation_history) <= max_history_length

\* C28: no operation on a constructed session, reset_session, clear_history
\* and load_from_file included, changes max_history_length.
C28_CapKeptForLifetime ==
    [][lastOp'.op # "__init__" => max_history_length' = max_history_length]_vars

\* C24: in both pipelines, when the session save at the end of an otherwise
\* successful run fails, the failure is swallowed: the run goes on to its
\* closing step, and the session history is left as it was (no error message
\* is appended because of it).
C24_SaveFailureSwallowed ==
    /\ [][pc = "save" /\ lastOp'.k = "save" /\ lastOp'.raised
             => /\ pc' = "done"
                /\ conversation_history' = conversation_history]_vars
    /\ [](pc \in {"handled", "raised"} => run.save = "none")

C24_Witness ==
    /\ pc = "done" /\ run.save = "raised" /\ run.report
    /\ lastOp.k = "save" /\ lastOp.raised

\* the number of companies whose analysis returned
Successes == Cardinality({ i \in DOMAIN run.outcomes : run.outcomes[i] })

\* the loop of multi_company_comparison has gone over every company and the
\* test after it has been made
LoopLeft ==
    /\ pc \notin {"idle", "returned"} /\ run.mode = "multi"
    /\ Len(run.outcomes) = Len(run.companies)
    /\ pc # "loop"

====
